---------------------------- MODULE Spec2Model ----------------------------
(***************************************************************************)
(* Poll ledger and tally engine of the classroom voting tool: the          *)
(* realtime-database implementation (src/unnamed/part_002) and, in the     *)
(* variables app and disk, the local-storage implementation                *)
(* (src/src/App.tsx).                                                      *)
(*                                                                         *)
(* One poll record lives in the store.  One admin client and two student   *)
(* clients each hold React state mirrored from the store by the onValue    *)
(* listener, which reaches them asynchronously.  Writes are either         *)
(* field-level patches (update) computed from the writer's local state, or *)
(* transactions (runTransaction) whose update function is run on the       *)
(* client's copy of the record and committed only if the stored record is  *)
(* still that copy; otherwise the function is run again on the new value.  *)
(*                                                                         *)
(* The record's clock stamps (at, createdAt, updatedAt) are not            *)
(* represented.  Text is a sequence of one-character strings; a nullable   *)
(* timestamp is the empty sequence (null) or a one-element sequence.       *)
(***************************************************************************)
EXTENDS Integers, Sequences, FiniteSets, TLC

\* ----- bounds of the model -----
MaxAdminOps == 2      \* admin handler invocations explored
MaxSubmits == 1       \* clicks on the submit button explored per student client
MaxIds == 5           \* option ids uuid() hands out
MaxExpected == 2      \* largest number typed into the expected-voters box
MaxTime == 2          \* largest timestamp picked as the deadline
MaxLocalOps == 5      \* handler invocations and page loads of the local-storage App
MaxCreates == 2       \* pages opened without a pid that draw the same poll id

\* the pid of the poll the clients share, and the pids Math.random() can draw
ThePoll == "p1"
PollIds == {"p1", "p2"}

Admin == "admin"
Students == {"s1", "s2"}
Clients == {Admin} \cup Students

\* texts a student types into the name box
NameInputs == {<<" ", "a">>, <<"A">>}
EditedLabel == 0      \* a label typed by the admin; n > 0 is the placeholder "보기 n"
DefaultTitle == 0
EditedTitle == 1      \* a title typed by the admin
DEFAULT_DESC == 0
EditedDesc == 1       \* a description typed by the admin

\* deadlineAt: number | null
Null == <<>>
Timestamps == {<<t>> : t \in 0..MaxTime}
\* the instants Date.now() returns at a render
Nows == 0..(MaxTime + 1)

VARIABLES
  store,        \* the poll record at polls/<pollId>
  local,        \* local[c]: React state of client c mirrored from the store
  voterName,    \* voterName[s]: content of the student's name box
  selected,     \* selected[s]: the student's pending selection
  deviceToken,  \* deviceToken[s]: localStorage vote_device_token_<pollId>
  submitted,    \* submitted[s]: StudentView's confirmation flag
  tx,           \* tx[c]: the latest transaction of client c
  verdict,      \* verdict[s]: branch the last submitVote of s took
  shown,        \* shown[s]: what the last submitVote of s reported to its user
  linkVersion,  \* admin's share-link version
  lastOp,       \* the admin handler that ran last
  uuidCtr,      \* number of ids uuid() has produced
  adminOps,     \* admin handler invocations so far
  studentOps,   \* studentOps[s]: submit clicks of s so far
  rooms,        \* rooms[pid]: default records the acquisition effect has set at polls/pid
  pollId,       \* pollId[c]: the poll id client c acquired (the pid of its URL)
  app,          \* React state of the local-storage implementation's App
  disk          \* that browser's localStorage

vars == <<store, local, voterName, selected, deviceToken, submitted, tx,
          verdict, shown, linkVersion, lastOp, uuidCtr, adminOps, studentOps,
          rooms, pollId, app, disk>>

\* what the handlers of the realtime-database clients never touch
sessionVars == <<rooms, pollId, app, disk>>

\* what the local-storage implementation never touches
cloudVars == <<store, local, voterName, selected, deviceToken, submitted, tx,
               verdict, shown, linkVersion, lastOp, uuidCtr, adminOps, studentOps,
               rooms, pollId>>

\* ----- sequences and text -----
Range(f) == {f[i] : i \in DOMAIN f}

Take(s, n) == SubSeq(s, 1, IF n < Len(s) THEN n ELSE Len(s))

RECURSIVE SeqFilter(_, _)
SeqFilter(s, x) ==
  IF s = <<>> THEN <<>>
  ELSE IF Head(s) = x THEN SeqFilter(Tail(s), x)
       ELSE <<Head(s)>> \o SeqFilter(Tail(s), x)

RECURSIVE TrimStart(_)
TrimStart(s) == IF s # <<>> /\ Head(s) = " " THEN TrimStart(Tail(s)) ELSE s

RECURSIVE TrimEnd(_)
TrimEnd(s) ==
  IF s # <<>> /\ s[Len(s)] = " " THEN TrimEnd(SubSeq(s, 1, Len(s) - 1)) ELSE s

Trim(s) == TrimEnd(TrimStart(s))

\* ----- the poll record -----
NoBallots == [k \in {} |-> <<>>]

makeDefaultState ==
  [present |-> TRUE,
   title |-> DefaultTitle,
   desc |-> DEFAULT_DESC,
   voteLimit |-> 1,
   options |-> << [id |-> 1, label |-> 1, votes |-> 0],
                  [id |-> 2, label |-> 2, votes |-> 0] >>,
   ballots |-> NoBallots,
   anonymous |-> FALSE,
   visibilityMode |-> "always",
   deadlineAt |-> Null,
   expectedVoters |-> 0,
   manualClosed |-> FALSE]

\* makeDefaultState() called when uuid() has handed out n ids
FreshState(n) ==
  [makeDefaultState EXCEPT
     !.options = << [id |-> n + 1, label |-> 1, votes |-> 0],
                    [id |-> n + 2, label |-> 2, votes |-> 0] >>]

\* useState initial values of App
InitialLocal ==
  [present |-> TRUE,
   title |-> DefaultTitle,
   desc |-> DEFAULT_DESC,
   voteLimit |-> 1,
   options |-> <<>>,
   ballots |-> NoBallots,
   anonymous |-> FALSE,
   visibilityMode |-> "always",
   deadlineAt |-> Null,
   expectedVoters |-> 0,
   manualClosed |-> FALSE]

\* no record at the poll's path; a read of a missing field gives the listener's
\* default for it
NoPoll == [InitialLocal EXCEPT !.present = FALSE]

OptionIds(opts) == {opts[i].id : i \in DOMAIN opts}

votedCount(p) == Cardinality(DOMAIN p.ballots)
\* auto-close that waits for one ballot more than expected
autoClosed_Strict(p) == p.expectedVoters > 0 /\ votedCount(p) > p.expectedVoters
autoClosed(p) == p.expectedVoters > 0 /\ votedCount(p) >= p.expectedVoters
isClosed(p) == p.manualClosed \/ autoClosed(p)

\* !deadlineAt is false: the value is a timestamp other than 0
Truthy(d) == d # Null /\ d[1] # 0

\* baseVisible with "deadline" also revealing the results of a closed poll
baseVisible_RevealsWhenClosed(p, now) ==
  IF p.visibilityMode = "always" THEN TRUE
  ELSE IF p.visibilityMode = "hidden" THEN FALSE
  ELSE IF isClosed(p) THEN TRUE
  ELSE IF ~Truthy(p.deadlineAt) THEN FALSE
  ELSE now >= p.deadlineAt[1]

\* what a render at instant now computes from the client's copy p of the poll
baseVisible(p, now) ==
  IF p.visibilityMode = "always" THEN TRUE
  ELSE IF p.visibilityMode = "hidden" THEN FALSE
  ELSE IF ~Truthy(p.deadlineAt) THEN FALSE
  ELSE now >= p.deadlineAt[1]

\* isVisibleAdmin without the exception for "hidden"
isVisibleAdmin_NoException(p, now) == baseVisible(p, now)
isVisibleAdmin(p, now) ==
  IF p.visibilityMode = "hidden" THEN TRUE ELSE baseVisible(p, now)
isVisibleStudent(p, now) == baseVisible(p, now)

\* isVisible of the local-storage implementation (src/src/App.tsx)
isVisible(p, now) ==
  IF p.visibilityMode = "always" THEN TRUE
  ELSE IF p.visibilityMode = "hidden" THEN FALSE
  ELSE IF ~Truthy(p.deadlineAt) THEN FALSE
  ELSE now >= p.deadlineAt[1]

\* number of ballots whose ids contain option id oid
BallotCount(ballots, oid) ==
  Cardinality({k \in DOMAIN ballots : oid \in Range(ballots[k].ids)})

\* findIndex: first position of the option with this id, 0 when there is none
FindIndex(opts, oid) ==
  IF oid \in OptionIds(opts)
  THEN CHOOSE i \in DOMAIN opts :
         opts[i].id = oid /\ \A j \in DOMAIN opts : opts[j].id = oid => i <= j
  ELSE 0

\* a transaction: its update function's closure (key, sel, name, optId, next), the
\* record the function last ran on (base) and whether it is still in flight; a
\* resolved transaction keeps its closure until the client starts the next one,
\* and the admin's also keeps the record it was committed on
NoTx == [pending |-> FALSE, kind |-> "none", key |-> <<>>, sel |-> <<>>,
         name |-> <<>>, optId |-> 0, next |-> <<>>, base |-> makeDefaultState]
StartTx(t) == [t EXCEPT !.pending = TRUE]


\* ----- store primitives -----
\* update(ref, fields): shallow merge of the named fields into the record; at a
\* path that holds nothing it leaves a record of just these fields
Patch(data, fields) ==
  [f \in DOMAIN data |->
     IF f \in DOMAIN fields THEN fields[f]
     ELSE IF f = "present" THEN TRUE
     ELSE data[f]]

\* a transaction commits unless its update function returned undefined
Undefined == [present |-> FALSE, undefined |-> TRUE]
Committed(ret) == ret # Undefined

\* ----- update functions of the transactions -----
\* ids.forEach: add one vote to the first option carrying each id
RECURSIVE IncVotes(_, _)
IncVotes(opts, ids) ==
  IF ids = <<>> THEN opts
  ELSE LET idx == FindIndex(opts, Head(ids))
       IN IncVotes(IF idx > 0
                   THEN [opts EXCEPT ![idx].votes = opts[idx].votes + 1]
                   ELSE opts,
                   Tail(ids))

\* (info.ids).forEach: take one vote, floored at zero, from each referenced option
RECURSIVE DecVotes(_, _)
DecVotes(opts, ids) ==
  IF ids = <<>> THEN opts
  ELSE LET idx == FindIndex(opts, Head(ids))
           v == IF idx > 0 THEN opts[idx].votes - 1 ELSE 0
       IN DecVotes(IF idx > 0
                   THEN [opts EXCEPT ![idx].votes = IF v > 0 THEN v ELSE 0]
                   ELSE opts,
                   Tail(ids))

\* countMap over the ballots, written into the given option list
FixVotes(opts, ballots) ==
  [i \in DOMAIN opts |-> [opts[i] EXCEPT !.votes = BallotCount(ballots, opts[i].id)]]

\* submitVote's update function without the check for an existing ballot
SubmitUpdate_NoDupCheck(data, key, sel, name) ==
  IF ~data.present THEN data
  ELSE LET ids == Take(sel, data.voteLimit)
           b == [ids |-> ids, name |-> IF data.anonymous THEN <<>> ELSE name]
       IN [data EXCEPT
             !.ballots = [k \in DOMAIN data.ballots \cup {key} |->
                            IF k = key THEN b ELSE data.ballots[k]],
             !.options = IncVotes(data.options, ids)]

\* submitVote's update function recording the new selection over an existing ballot
SubmitUpdate_DupOverwrites(data, key, sel, name) ==
  IF ~data.present THEN data
  ELSE LET ids == Take(sel, data.voteLimit)
           b == [ids |-> ids, name |-> IF data.anonymous THEN <<>> ELSE name]
       IN [data EXCEPT
             !.ballots = [k \in DOMAIN data.ballots \cup {key} |->
                            IF k = key THEN b ELSE data.ballots[k]],
             !.options = IF key \in DOMAIN data.ballots THEN data.options
                         ELSE IncVotes(data.options, ids)]

\* submitVote's update function storing the whole selection
SubmitUpdate_NoTruncation(data, key, sel, name) ==
  IF ~data.present THEN data
  ELSE IF key \in DOMAIN data.ballots THEN data
  ELSE LET b == [ids |-> sel, name |-> IF data.anonymous THEN <<>> ELSE name]
       IN [data EXCEPT
             !.ballots = [k \in DOMAIN data.ballots \cup {key} |->
                            IF k = key THEN b ELSE data.ballots[k]],
             !.options = IncVotes(data.options, sel)]

SubmitUpdate(data, key, sel, name) ==
  IF ~data.present THEN data
  ELSE IF key \in DOMAIN data.ballots THEN data
  ELSE LET ids == Take(sel, data.voteLimit)
           b == [ids |-> ids, name |-> IF data.anonymous THEN <<>> ELSE name]
       IN [data EXCEPT
             !.ballots = [k \in DOMAIN data.ballots \cup {key} |->
                            IF k = key THEN b ELSE data.ballots[k]],
             !.options = IncVotes(data.options, ids)]

\* removeVoter's update function deleting the entry without touching the votes
RemoveVoterUpdate_KeepsVotes(data, id) ==
  IF ~data.present THEN data
  ELSE IF id \notin DOMAIN data.ballots THEN data
  ELSE [data EXCEPT
          !.ballots = [k \in DOMAIN data.ballots \ {id} |-> data.ballots[k]]]

\* removeVoter's update function taking the votes down without the floor at zero
RemoveVoterUpdate_NoFloor(data, id) ==
  IF ~data.present THEN data
  ELSE IF id \notin DOMAIN data.ballots THEN data
  ELSE [data EXCEPT
          !.ballots = [k \in DOMAIN data.ballots \ {id} |-> data.ballots[k]],
          !.options = [i \in DOMAIN data.options |->
                         IF data.options[i].id \in Range(data.ballots[id].ids)
                         THEN [data.options[i] EXCEPT !.votes = @ - 1]
                         ELSE data.options[i]]]

\* removeVoter's update function emptying the ballot and leaving its key
RemoveVoterUpdate_LeavesKey(data, id) ==
  IF ~data.present THEN data
  ELSE IF id \notin DOMAIN data.ballots THEN data
  ELSE [data EXCEPT !.ballots[id].ids = <<>>,
                    !.options = DecVotes(@, data.ballots[id].ids)]

RemoveVoterUpdate(data, id) ==
  IF ~data.present THEN data
  ELSE IF id \notin DOMAIN data.ballots THEN data
  ELSE [data EXCEPT
          !.ballots = [k \in DOMAIN data.ballots \ {id} |-> data.ballots[k]],
          !.options = DecVotes(data.options, data.ballots[id].ids)]

\* removeOption's update function writing the option list and leaving the ballots
RemoveOptionUpdate_KeepsBallots(data, id, next) ==
  IF ~data.present THEN data
  ELSE [data EXCEPT !.options = FixVotes(next, data.ballots)]

\* removeOption's update function discarding every ballot that held the option
RemoveOptionUpdate_DropsVoters(data, id, next) ==
  IF ~data.present THEN data
  ELSE LET kept == {k \in DOMAIN data.ballots : id \notin Range(data.ballots[k].ids)}
           newBallots == [k \in kept |-> data.ballots[k]]
       IN [data EXCEPT !.options = FixVotes(next, newBallots),
                       !.ballots = newBallots]

\* removeOption's update function discarding the ballots it empties
RemoveOptionUpdate_DropsEmptied(data, id, next) ==
  IF ~data.present THEN data
  ELSE LET kept == {k \in DOMAIN data.ballots : SeqFilter(data.ballots[k].ids, id) # <<>>}
           newBallots == [k \in kept |->
                            [data.ballots[k] EXCEPT !.ids = SeqFilter(@, id)]]
       IN [data EXCEPT !.options = FixVotes(next, newBallots),
                       !.ballots = newBallots]

RemoveOptionUpdate(data, id, next) ==
  IF ~data.present THEN data
  ELSE LET newBallots == [k \in DOMAIN data.ballots |->
                            [data.ballots[k] EXCEPT !.ids = SeqFilter(@, id)]]
       IN [data EXCEPT !.options = FixVotes(next, newBallots),
                       !.ballots = newBallots]

\* recountVotes' update function giving every option the number of voters
RecountUpdate_CountsVoters(data) ==
  IF ~data.present THEN data
  ELSE [data EXCEPT !.options =
          [i \in DOMAIN data.options |->
             [data.options[i] EXCEPT !.votes = Cardinality(DOMAIN data.ballots)]]]

\* recountVotes' update function adding the counts to the votes already there
RecountUpdate_Accumulates(data) ==
  IF ~data.present THEN data
  ELSE [data EXCEPT !.options =
          [i \in DOMAIN data.options |->
             [data.options[i] EXCEPT
                !.votes = @ + BallotCount(data.ballots, data.options[i].id)]]]

RecountUpdate(data) ==
  IF ~data.present THEN data
  ELSE [data EXCEPT !.options = FixVotes(data.options, data.ballots)]

\* recountVotes of the local-storage implementation (src/src/App.tsx): the
\* options zeroed, then given countMap[o.id] || 0, countMap counting every
\* occurrence of an id in the ballots
RECURSIVE Occurrences(_, _)
Occurrences(ids, oid) ==
  IF ids = <<>> THEN 0
  ELSE (IF Head(ids) = oid THEN 1 ELSE 0) + Occurrences(Tail(ids), oid)

RECURSIVE CountMap(_, _, _)
CountMap(ballots, keys, oid) ==
  IF keys = {} THEN 0
  ELSE LET k == CHOOSE x \in keys : TRUE
       IN Occurrences(ballots[k].ids, oid) + CountMap(ballots, keys \ {k}, oid)

LocalRecount(prev, ballots) ==
  LET zeroed == [i \in DOMAIN prev |-> [prev[i] EXCEPT !.votes = 0]]
  IN [i \in DOMAIN zeroed |->
        [zeroed[i] EXCEPT !.votes = CountMap(ballots, DOMAIN ballots, zeroed[i].id)]]

\* the value the update function of transaction t returns on data
TxUpdate(t, data) ==
  CASE t.kind = "submit" -> SubmitUpdate(data, t.key, t.sel, t.name)
    [] t.kind = "removeVoter" -> RemoveVoterUpdate(data, t.key)
    [] t.kind = "removeOption" -> RemoveOptionUpdate(data, t.optId, t.next)
    [] t.kind = "recount" -> RecountUpdate(data)
    [] OTHER -> data

\* ----- the local-storage implementation: state -----
\* The polls one browser can show: its own (kept under STORAGE_KEY) and the
\* polls of two share links (?s=<snapshot>) made in other browsers.
LocalPolls == {"own", "A", "B"}

\* the snapshots decoded from the two share links
LinkSnapshots ==
  { [poll |-> "A", voteLimit |-> 1, anonymous |-> TRUE, expectedVoters |-> 0,
     manualClosed |-> FALSE, visibilityMode |-> "always", deadlineAt |-> Null,
     options |-> << [id |-> 101, label |-> 1], [id |-> 102, label |-> 2] >>],
    [poll |-> "B", voteLimit |-> 2, anonymous |-> TRUE, expectedVoters |-> 0,
     manualClosed |-> FALSE, visibilityMode |-> "always", deadlineAt |-> Null,
     options |-> << [id |-> 201, label |-> 1], [id |-> 202, label |-> 2] >>] }

\* the option ids a page of this browser can show: those uuid() makes here (two
\* per page load) and those of the share links
LocalIds ==
  1..(2 * MaxLocalOps + 3)
    \cup UNION {OptionIds(snap.options) : snap \in LinkSnapshots}

\* the useState initial values of App when uuid() has handed out n ids; poll
\* tags which poll the state belongs to; timer is Null or holds the ballots
\* seen by the recountVotes that setTimeout has queued
AppDefaults(n) ==
  [poll |-> "own",
   voteLimit |-> 1,
   options |-> << [id |-> n + 1, label |-> 1, votes |-> 0],
                  [id |-> n + 2, label |-> 2, votes |-> 0] >>,
   ballots |-> NoBallots,
   anonymous |-> FALSE,
   expectedVoters |-> 0,
   manualClosed |-> FALSE,
   visibilityMode |-> "always",
   deadlineAt |-> Null,
   voterName |-> <<>>,
   selected |-> <<>>,
   linkVersion |-> 0,
   timer |-> Null]

\* what the autosave effect writes under STORAGE_KEY
Payload(a) ==
  [poll |-> a.poll, voteLimit |-> a.voteLimit, options |-> a.options,
   ballots |-> a.ballots, anonymous |-> a.anonymous,
   expectedVoters |-> a.expectedVoters, manualClosed |-> a.manualClosed,
   visibilityMode |-> a.visibilityMode, deadlineAt |-> a.deadlineAt]

AppInit == AppDefaults(0)

\* localStorage after the first render: no device token, the autosaved defaults;
\* uuids counts the ids uuid() has produced, ops the handlers run, and resolved
\* records the token getStudentKey last returned for each poll
DiskInit ==
  [token |-> <<>>,
   saved |-> Payload(AppInit),
   uuids |-> 2,
   ops |-> 0,
   resolved |-> [p \in LocalPolls |-> <<>>]]

\* ----- initial state: the admin has created the poll, nobody has a snapshot -----
Init ==
  /\ store = makeDefaultState
  /\ local = [c \in Clients |-> InitialLocal]
  /\ voterName = [s \in Students |-> <<>>]
  /\ selected = [s \in Students |-> <<>>]
  /\ deviceToken = [s \in Students |-> <<>>]
  /\ submitted = [s \in Students |-> FALSE]
  /\ tx = [c \in Clients |-> NoTx]
  /\ verdict = [s \in Students |-> "idle"]
  /\ shown = [s \in Students |-> "none"]
  /\ linkVersion = 0
  /\ lastOp = "none"
  /\ uuidCtr = 2
  /\ adminOps = 0
  /\ studentOps = [s \in Students |-> 0]
  /\ rooms = [pid \in PollIds |-> IF pid = ThePoll THEN 1 ELSE 0]
  /\ pollId = [c \in Clients |-> ThePoll]
  /\ app = AppInit
  /\ disk = DiskInit

\* the clients were opened with ?pid=<ThePoll> while polls/<ThePoll> holds
\* nothing: the acquisition effect takes the pid and writes nothing
InitAbsent ==
  /\ store = NoPoll
  /\ local = [c \in Clients |-> InitialLocal]
  /\ voterName = [s \in Students |-> <<>>]
  /\ selected = [s \in Students |-> <<>>]
  /\ deviceToken = [s \in Students |-> <<>>]
  /\ submitted = [s \in Students |-> FALSE]
  /\ tx = [c \in Clients |-> NoTx]
  /\ verdict = [s \in Students |-> "idle"]
  /\ shown = [s \in Students |-> "none"]
  /\ linkVersion = 0
  /\ lastOp = "none"
  /\ uuidCtr = 0
  /\ adminOps = 0
  /\ studentOps = [s \in Students |-> 0]
  /\ rooms = [pid \in PollIds |-> 0]
  /\ pollId = [c \in Clients |-> ThePoll]
  /\ app = AppInit
  /\ disk = DiskInit

\* ----- onValue listener -----
\* the client can still invoke a handler within the bounds
CanAct(c) == IF c = Admin THEN adminOps < MaxAdminOps ELSE studentOps[c] < MaxSubmits

\* the callback of onValue leaving the ballots state as it was
Listener_KeepsBallots(c) ==
  /\ store.present
  /\ local[c] # store
  /\ local' = [local EXCEPT ![c] = [store EXCEPT !.ballots = local[c].ballots]]
  /\ UNCHANGED <<store, voterName, selected, deviceToken, submitted, tx, verdict,
                 shown, linkVersion, lastOp, uuidCtr, adminOps, studentOps,
                 sessionVars>>

\* the callback of onValue: a snapshot without data is ignored, otherwise every
\* mirrored field is set from it
Listener(c) ==
  /\ store.present
  /\ local[c] # store
  /\ local' = [local EXCEPT ![c] = store]
  /\ UNCHANGED <<store, voterName, selected, deviceToken, submitted, tx, verdict,
                 shown, linkVersion, lastOp, uuidCtr, adminOps, studentOps,
                 sessionVars>>

\* snapshots are explored while the receiving client can still act on them
Deliver(c) == CanAct(c) /\ Listener(c)

\* ----- student handlers -----
StudentStep(s) ==
  /\ studentOps[s] < MaxSubmits
  /\ studentOps' = [studentOps EXCEPT ![s] = @ + 1]

\* the option button appending the id whether or not it is selected already
Toggle_AppendsAlways(s, oid) ==
  /\ studentOps[s] < MaxSubmits
  /\ oid \in OptionIds(local[s].options)
  /\ ~isClosed(local[s])
  /\ Len(selected[s]) < local[s].voteLimit
  /\ selected' = [selected EXCEPT ![s] = Append(@, oid)]
  /\ UNCHANGED <<store, local, voterName, deviceToken, submitted, tx, verdict, shown,
                 linkVersion, lastOp, uuidCtr, adminOps, studentOps,
                 sessionVars>>

\* onClick of an option button (disabled when closed or the selection is full);
\* selections are explored while the student has a submit click left
Toggle(s, oid) ==
  /\ studentOps[s] < MaxSubmits
  /\ oid \in OptionIds(local[s].options)
  /\ ~isClosed(local[s])
  /\ oid \in Range(selected[s]) \/ Len(selected[s]) < local[s].voteLimit
  /\ selected' = [selected EXCEPT ![s] =
                    IF oid \in Range(@) THEN SeqFilter(@, oid) ELSE Append(@, oid)]
  /\ UNCHANGED <<store, local, voterName, deviceToken, submitted, tx, verdict, shown,
                 linkVersion, lastOp, uuidCtr, adminOps, studentOps,
                 sessionVars>>

\* the key getStudentKey returns, and the token it leaves in localStorage
NewToken(s) == <<"t", s>>
StudentKey(s) ==
  IF local[s].anonymous
  THEN IF deviceToken[s] # <<>> THEN deviceToken[s] ELSE NewToken(s)
  ELSE Trim(voterName[s])
TokenAfterKey(s) ==
  IF local[s].anonymous /\ deviceToken[s] = <<>> THEN NewToken(s) ELSE deviceToken[s]

\* submitVote testing the selection before the key
SubmitVote_SelectionFirst(s, n) ==
  /\ StudentStep(s)
  /\ ~tx[s].pending
  /\ n = voterName[s] \/ (~local[s].anonymous /\ ~isClosed(local[s]))
  /\ voterName' = [voterName EXCEPT ![s] = n]
  /\ submitted' = [submitted EXCEPT ![s] = TRUE]
  /\ LET key == IF local[s].anonymous THEN StudentKey(s) ELSE Trim(n)
     IN IF isClosed(local[s])
        THEN /\ verdict' = [verdict EXCEPT ![s] = "closed"]
             /\ shown' = [shown EXCEPT ![s] = "alertClosed"]
             /\ UNCHANGED <<tx, deviceToken>>
        ELSE /\ deviceToken' = [deviceToken EXCEPT ![s] = TokenAfterKey(s)]
             /\ IF Len(selected[s]) = 0
                THEN /\ verdict' = [verdict EXCEPT ![s] = "nosel"]
                     /\ shown' = [shown EXCEPT ![s] = "alertNoSel"]
                     /\ UNCHANGED tx
                ELSE IF key = <<>>
                THEN /\ verdict' = [verdict EXCEPT ![s] = "nokey"]
                     /\ shown' = [shown EXCEPT ![s] = "alertName"]
                     /\ UNCHANGED tx
                ELSE /\ verdict' = [verdict EXCEPT ![s] = "pending"]
                     /\ shown' = [shown EXCEPT ![s] = "none"]
                     /\ tx' = [tx EXCEPT ![s] =
                                 StartTx([NoTx EXCEPT !.kind = "submit", !.key = key,
                                              !.sel = selected[s],
                                              !.name = Trim(n),
                                              !.base = store])]
  /\ UNCHANGED <<store, local, selected, linkVersion, lastOp, uuidCtr, adminOps,
                 sessionVars>>

\* The student leaves text n in the name box (onChange of the input, which is
\* rendered unless anonymous and disabled when closed) and clicks submit:
\* submitVote followed by setSubmitted(true)
SubmitVote(s, n) ==
  /\ StudentStep(s)
  /\ ~tx[s].pending
  /\ n = voterName[s] \/ (~local[s].anonymous /\ ~isClosed(local[s]))
  /\ voterName' = [voterName EXCEPT ![s] = n]
  /\ submitted' = [submitted EXCEPT ![s] = TRUE]
  /\ LET key == IF local[s].anonymous THEN StudentKey(s) ELSE Trim(n)
     IN IF isClosed(local[s])
        THEN /\ verdict' = [verdict EXCEPT ![s] = "closed"]
             /\ shown' = [shown EXCEPT ![s] = "alertClosed"]
             /\ UNCHANGED <<tx, deviceToken>>
        ELSE /\ deviceToken' = [deviceToken EXCEPT ![s] = TokenAfterKey(s)]
             /\ IF key = <<>>
                THEN /\ verdict' = [verdict EXCEPT ![s] = "nokey"]
                     /\ shown' = [shown EXCEPT ![s] = "alertName"]
                     /\ UNCHANGED tx
                ELSE IF Len(selected[s]) = 0
                THEN /\ verdict' = [verdict EXCEPT ![s] = "nosel"]
                     /\ shown' = [shown EXCEPT ![s] = "alertNoSel"]
                     /\ UNCHANGED tx
                ELSE /\ verdict' = [verdict EXCEPT ![s] = "pending"]
                     /\ shown' = [shown EXCEPT ![s] = "none"]
                     /\ tx' = [tx EXCEPT ![s] =
                                 StartTx([NoTx EXCEPT !.kind = "submit", !.key = key,
                                              !.sel = selected[s],
                                              !.name = Trim(n),
                                              !.base = store])]
  /\ UNCHANGED <<store, local, selected, linkVersion, lastOp, uuidCtr, adminOps,
                 sessionVars>>

\* ----- runTransaction -----
\* the stored record changed since the update function ran: run it again
Rerun(c) ==
  /\ tx[c].pending
  /\ tx[c].base # store
  /\ tx' = [tx EXCEPT ![c].base = store]
  /\ UNCHANGED <<store, local, voterName, selected, deviceToken, submitted, verdict,
                 shown, linkVersion, lastOp, uuidCtr, adminOps, studentOps,
                 sessionVars>>

\* which branch of submitVote's update function ran on data
SubmitBranch(t, data) ==
  IF ~data.present THEN "absent"
  ELSE IF t.key \in DOMAIN data.ballots THEN "dup" ELSE "accepted"

\* the stored record is the one the function ran on: write the result, resolve
\* the promise (submitVote's then-callback)
Commit(c) ==
  /\ tx[c].pending
  /\ tx[c].base = store
  /\ LET ret == TxUpdate(tx[c], tx[c].base)
     IN /\ store' = IF Committed(ret) THEN ret ELSE store
        /\ IF tx[c].kind = "submit"
           THEN /\ verdict' = [verdict EXCEPT ![c] = SubmitBranch(tx[c], tx[c].base)]
                /\ IF Committed(ret)
                   THEN /\ voterName' = [voterName EXCEPT ![c] = <<>>]
                        /\ selected' = [selected EXCEPT ![c] = <<>>]
                        /\ shown' = [shown EXCEPT ![c] = "cleared"]
                   ELSE /\ shown' = [shown EXCEPT ![c] = "alertAlready"]
                        /\ UNCHANGED <<voterName, selected>>
           ELSE UNCHANGED <<verdict, voterName, selected, shown>>
  /\ tx' = [tx EXCEPT ![c].pending = FALSE,
                       ![c].base = IF c = Admin THEN @ ELSE makeDefaultState]
  /\ UNCHANGED <<local, deviceToken, submitted, linkVersion, lastOp, uuidCtr, adminOps,
                 studentOps,
                 sessionVars>>

\* ----- admin handlers -----
AdminStep(op) ==
  /\ adminOps < MaxAdminOps
  /\ adminOps' = adminOps + 1
  /\ lastOp' = op

\* patchPoll writing the fields with set(), which replaces the record by them
patchPoll_Set(fields) == store' = Patch(NoPoll, fields)

\* patchPoll: the poll id is set, the fields go to the store with update()
patchPoll(fields) == store' = Patch(store, fields)

AdminFrame ==
  UNCHANGED <<voterName, selected, deviceToken, submitted, verdict, shown, uuidCtr,
              studentOps,
                 sessionVars>>

saveToCloud ==
  /\ AdminStep("saveToCloud")
  /\ patchPoll([title |-> local[Admin].title,
                desc |-> local[Admin].desc,
                voteLimit |-> local[Admin].voteLimit,
                options |-> local[Admin].options,
                anonymous |-> local[Admin].anonymous,
                visibilityMode |-> local[Admin].visibilityMode,
                deadlineAt |-> local[Admin].deadlineAt,
                expectedVoters |-> local[Admin].expectedVoters,
                manualClosed |-> local[Admin].manualClosed])
  /\ linkVersion' = linkVersion + 1
  /\ UNCHANGED <<local, tx>>
  /\ AdminFrame

setOptionLabel(id, label) ==
  /\ AdminStep("setOptionLabel")
  /\ id \in OptionIds(local[Admin].options)
  /\ LET prev == local[Admin].options
         next == [i \in DOMAIN prev |->
                    IF prev[i].id = id THEN [prev[i] EXCEPT !.label = label]
                    ELSE prev[i]]
     IN /\ next # prev
        /\ local' = [local EXCEPT ![Admin].options = next]
        /\ patchPoll([options |-> next])
  /\ UNCHANGED <<tx, linkVersion>>
  /\ AdminFrame

addOption ==
  /\ AdminStep("addOption")
  /\ uuidCtr < MaxIds
  /\ LET options == local[Admin].options
         next == Append(options, [id |-> uuidCtr + 1,
                                  label |-> Len(options) + 1,
                                  votes |-> 0])
     IN /\ local' = [local EXCEPT ![Admin].options = next]
        /\ patchPoll([options |-> next])
  /\ uuidCtr' = uuidCtr + 1
  /\ UNCHANGED <<tx, linkVersion, voterName, selected, deviceToken, submitted, verdict,
                 shown, studentOps,
                 sessionVars>>

\* options.filter, then the transaction is started with next in its closure
removeOption(id) ==
  /\ AdminStep("removeOption")
  /\ ~tx[Admin].pending
  /\ id \in OptionIds(local[Admin].options)
  /\ LET options == local[Admin].options
         keep == {i \in DOMAIN options : options[i].id # id}
         next == [n \in 1..Cardinality(keep) |->
                    options[CHOOSE i \in keep :
                              Cardinality({j \in keep : j < i}) = n - 1]]
     IN /\ local' = [local EXCEPT ![Admin].options = next]
        /\ tx' = [tx EXCEPT ![Admin] =
                    StartTx([NoTx EXCEPT !.kind = "removeOption", !.optId = id,
                                 !.next = next, !.base = store])]
  /\ UNCHANGED <<store, linkVersion>>
  /\ AdminFrame

recountVotes ==
  /\ AdminStep("recountVotes")
  /\ ~tx[Admin].pending
  /\ tx' = [tx EXCEPT ![Admin] = StartTx([NoTx EXCEPT !.kind = "recount", !.base = store])]
  /\ UNCHANGED <<store, local, linkVersion>>
  /\ AdminFrame

\* the delete button of an entry of the voter list; the confirm dialog is accepted
removeVoter(id) ==
  /\ AdminStep("removeVoter")
  /\ ~tx[Admin].pending
  /\ id \in DOMAIN local[Admin].ballots
  /\ tx' = [tx EXCEPT ![Admin] =
              StartTx([NoTx EXCEPT !.kind = "removeVoter", !.key = id, !.base = store])]
  /\ UNCHANGED <<store, local, linkVersion>>
  /\ AdminFrame

\* the close button is rendered while the admin's view is open, reopen otherwise
closeNow ==
  /\ AdminStep("closeNow")
  /\ ~isClosed(local[Admin])
  /\ patchPoll([manualClosed |-> TRUE])
  /\ UNCHANGED <<local, tx, linkVersion>>
  /\ AdminFrame

reopen ==
  /\ AdminStep("reopen")
  /\ isClosed(local[Admin])
  /\ patchPoll([manualClosed |-> FALSE])
  /\ UNCHANGED <<local, tx, linkVersion>>
  /\ AdminFrame

onExpectedChange(num) ==
  /\ AdminStep("onExpectedChange")
  /\ num # local[Admin].expectedVoters
  /\ local' = [local EXCEPT ![Admin].expectedVoters = num]
  /\ patchPoll([expectedVoters |-> num])
  /\ UNCHANGED <<tx, linkVersion>>
  /\ AdminFrame

setVoteLimit(v) ==
  /\ AdminStep("setVoteLimit")
  /\ v # local[Admin].voteLimit
  /\ local' = [local EXCEPT ![Admin].voteLimit = v]
  /\ patchPoll([voteLimit |-> v])
  /\ UNCHANGED <<tx, linkVersion>>
  /\ AdminFrame

\* onChange of the title input
setTitle(t) ==
  /\ AdminStep("setTitle")
  /\ t # local[Admin].title
  /\ local' = [local EXCEPT ![Admin].title = t]
  /\ patchPoll([title |-> t])
  /\ UNCHANGED <<tx, linkVersion>>
  /\ AdminFrame

setDesc(v) ==
  /\ AdminStep("setDesc")
  /\ v # local[Admin].desc
  /\ local' = [local EXCEPT ![Admin].desc = v]
  /\ patchPoll([desc |-> v])
  /\ UNCHANGED <<tx, linkVersion>>
  /\ AdminFrame

\* resetAllToDefaults writing the default settings with update(), which leaves
\* the ledger in place
resetAllToDefaults_PatchesSettings ==
  /\ AdminStep("resetAllToDefaults")
  /\ uuidCtr + 2 <= MaxIds
  /\ patchPoll([f \in DOMAIN FreshState(uuidCtr) \ {"ballots"} |-> FreshState(uuidCtr)[f]])
  /\ uuidCtr' = uuidCtr + 2
  /\ linkVersion' = linkVersion + 1
  /\ UNCHANGED <<local, tx, voterName, selected, deviceToken, submitted, verdict,
                 shown, studentOps,
                 sessionVars>>

\* the confirm dialog is accepted: set() replaces the whole record
resetAllToDefaults ==
  /\ AdminStep("resetAllToDefaults")
  /\ uuidCtr + 2 <= MaxIds
  /\ store' = FreshState(uuidCtr)
  /\ uuidCtr' = uuidCtr + 2
  /\ linkVersion' = linkVersion + 1
  /\ UNCHANGED <<local, tx, voterName, selected, deviceToken, submitted, verdict,
                 shown, studentOps,
                 sessionVars>>

\* the anonymous-mode checkbox
setAnonymous(b) ==
  /\ AdminStep("setAnonymous")
  /\ b # local[Admin].anonymous
  /\ local' = [local EXCEPT ![Admin].anonymous = b]
  /\ patchPoll([anonymous |-> b])
  /\ UNCHANGED <<tx, linkVersion>>
  /\ AdminFrame

\* the result-visibility select
setVisibilityMode(m) ==
  /\ AdminStep("setVisibilityMode")
  /\ m # local[Admin].visibilityMode
  /\ local' = [local EXCEPT ![Admin].visibilityMode = m]
  /\ patchPoll([visibilityMode |-> m])
  /\ UNCHANGED <<tx, linkVersion>>
  /\ AdminFrame

\* the datetime-local input, rendered in "deadline" mode; t is Null when the
\* input was cleared
setDeadlineAt(t) ==
  /\ AdminStep("setDeadlineAt")
  /\ local[Admin].visibilityMode = "deadline"
  /\ t # local[Admin].deadlineAt
  /\ local' = [local EXCEPT ![Admin].deadlineAt = t]
  /\ patchPoll([deadlineAt |-> t])
  /\ UNCHANGED <<tx, linkVersion>>
  /\ AdminFrame

\* ----- page loads of the realtime-database implementation -----
\* Client c reloads its page. The URL carries the pid since replaceState, so the
\* acquisition effect takes it and writes nothing; every useState starts from
\* its initial value, and a transaction the page had not finished is dropped.
\* localStorage (the device token) stays.
Reload(c) ==
  /\ CanAct(c)
  /\ local' = [local EXCEPT ![c] = InitialLocal]
  /\ tx' = [tx EXCEPT ![c] = NoTx]
  /\ pollId' = [pollId EXCEPT ![c] = pollId[c]]
  /\ IF c = Admin
     THEN /\ linkVersion' = 0
          /\ UNCHANGED <<voterName, selected, submitted, verdict, shown>>
     ELSE /\ voterName' = [voterName EXCEPT ![c] = <<>>]
          /\ selected' = [selected EXCEPT ![c] = <<>>]
          /\ submitted' = [submitted EXCEPT ![c] = FALSE]
          /\ verdict' = [verdict EXCEPT ![c] = "idle"]
          /\ shown' = [shown EXCEPT ![c] = "none"]
          /\ UNCHANGED linkVersion
  /\ UNCHANGED <<store, deviceToken, lastOp, uuidCtr, adminOps, studentOps, rooms,
                 app, disk>>

\* Some browser opens the app without a pid: the acquisition effect draws pid
\* with Math.random() and set()s a default record at polls/pid, whatever is
\* there. When the draw is the pid of the clients' poll, that record is theirs.
CreateRoom(pid) ==
  /\ rooms[pid] < MaxCreates
  /\ rooms' = [rooms EXCEPT ![pid] = @ + 1]
  /\ IF pid = ThePoll
     THEN /\ uuidCtr + 2 <= MaxIds
          /\ store' = FreshState(uuidCtr)
          /\ uuidCtr' = uuidCtr + 2
     ELSE UNCHANGED <<store, uuidCtr>>
  /\ UNCHANGED <<local, voterName, selected, deviceToken, submitted, tx, verdict,
                 shown, linkVersion, lastOp, adminOps, studentOps, pollId, app, disk>>

\* ----- the local-storage implementation: page load and handlers -----
\* every change of a persisted field is followed by the autosave effect, which
\* writes the new state under STORAGE_KEY
Autosaved(d, a) == [d EXCEPT !.ops = @ + 1, !.saved = Payload(a)]

\* the page is opened with ?s=<snapshot>: applySnapshot with resetVotes on the
\* initial state; the stored poll is not read
LoadLink(snap) ==
  /\ disk.ops < MaxLocalOps
  /\ app' = [AppDefaults(disk.uuids) EXCEPT
               !.poll = snap.poll,
               !.voteLimit = snap.voteLimit,
               !.options = [i \in DOMAIN snap.options |->
                              [id |-> snap.options[i].id,
                               label |-> snap.options[i].label,
                               votes |-> 0]],
               !.anonymous = snap.anonymous,
               !.expectedVoters = snap.expectedVoters,
               !.manualClosed = snap.manualClosed,
               !.visibilityMode = snap.visibilityMode,
               !.deadlineAt = snap.deadlineAt]
  /\ disk' = [Autosaved(disk, app') EXCEPT !.uuids = @ + 2]
  /\ UNCHANGED cloudVars

\* the page is opened without a snapshot: the fields stored under STORAGE_KEY
\* replace the initial ones
LoadSaved ==
  /\ disk.ops < MaxLocalOps
  /\ app' = [AppDefaults(disk.uuids) EXCEPT
               !.poll = disk.saved.poll,
               !.voteLimit = disk.saved.voteLimit,
               !.options = disk.saved.options,
               !.ballots = disk.saved.ballots,
               !.anonymous = disk.saved.anonymous,
               !.expectedVoters = disk.saved.expectedVoters,
               !.manualClosed = disk.saved.manualClosed,
               !.visibilityMode = disk.saved.visibilityMode,
               !.deadlineAt = IF Truthy(disk.saved.deadlineAt)
                              THEN disk.saved.deadlineAt ELSE Null]
  /\ disk' = [Autosaved(disk, app') EXCEPT !.uuids = @ + 2]
  /\ UNCHANGED cloudVars

\* the vote-limit select of AdminView
LocalSetVoteLimit(v) ==
  /\ disk.ops < MaxLocalOps
  /\ v # app.voteLimit
  /\ app' = [app EXCEPT !.voteLimit = v]
  /\ disk' = Autosaved(disk, app')
  /\ UNCHANGED cloudVars

\* the anonymous-mode checkbox of AdminView
LocalSetAnonymous(b) ==
  /\ disk.ops < MaxLocalOps
  /\ b # app.anonymous
  /\ app' = [app EXCEPT !.anonymous = b]
  /\ disk' = Autosaved(disk, app')
  /\ UNCHANGED cloudVars

\* the result-visibility select of AdminView
LocalSetVisibilityMode(m) ==
  /\ disk.ops < MaxLocalOps
  /\ m # app.visibilityMode
  /\ app' = [app EXCEPT !.visibilityMode = m]
  /\ disk' = Autosaved(disk, app')
  /\ UNCHANGED cloudVars

\* the datetime-local input, rendered in "deadline" mode
LocalSetDeadlineAt(t) ==
  /\ disk.ops < MaxLocalOps
  /\ app.visibilityMode = "deadline"
  /\ t # app.deadlineAt
  /\ app' = [app EXCEPT !.deadlineAt = t]
  /\ disk' = Autosaved(disk, app')
  /\ UNCHANGED cloudVars

\* what App's render hands to the two views as isVisible: the same value
LocalAdminVisible(a, now) == isVisible(a, now)
LocalStudentVisible(a, now) == isVisible(a, now)

\* closeNow (b = TRUE) and reopen (b = FALSE)
LocalSetManualClosed(b) ==
  /\ disk.ops < MaxLocalOps
  /\ b # app.manualClosed
  /\ app' = [app EXCEPT !.manualClosed = b]
  /\ disk' = Autosaved(disk, app')
  /\ UNCHANGED cloudVars

\* onClick of an option button of StudentView
LocalToggle(oid) ==
  /\ disk.ops < MaxLocalOps
  /\ oid \in OptionIds(app.options)
  /\ ~isClosed(app)
  /\ oid \in Range(app.selected) \/ Len(app.selected) < app.voteLimit
  /\ app' = [app EXCEPT !.selected =
                IF oid \in Range(@) THEN SeqFilter(@, oid) ELSE Append(@, oid)]
  /\ disk' = Autosaved(disk, app')
  /\ UNCHANGED cloudVars

\* getStudentKey: the token under "vote_device_token", made on first use
LocalStudentKey(n) ==
  IF app.anonymous
  THEN IF disk.token # <<>> THEN disk.token ELSE <<"t", disk.uuids + 1>>
  ELSE Trim(n)

\* the student leaves n in the name box and clicks submit
LocalSubmitVote(n) ==
  /\ disk.ops < MaxLocalOps
  /\ n = app.voterName \/ (~app.anonymous /\ ~isClosed(app))
  /\ IF isClosed(app)
     THEN /\ app' = [app EXCEPT !.voterName = n]
          /\ disk' = Autosaved(disk, app')
     ELSE LET key == LocalStudentKey(n)
              minted == app.anonymous /\ disk.token = <<>>
              d == [disk EXCEPT !.token = IF app.anonymous THEN key ELSE @,
                                !.uuids = IF minted THEN @ + 1 ELSE @,
                                !.resolved[app.poll] =
                                   IF app.anonymous THEN key ELSE @]
          IN /\ IF key = <<>> \/ app.selected = <<>> \/ key \in DOMAIN app.ballots
                THEN app' = [app EXCEPT !.voterName = n]
                ELSE app' = [app EXCEPT
                       !.ballots = [k \in DOMAIN @ \cup {key} |->
                                      IF k = key
                                      THEN [ids |-> app.selected,
                                            name |-> IF app.anonymous THEN <<>>
                                                     ELSE Trim(n)]
                                      ELSE @[k]],
                       !.options = [i \in DOMAIN @ |->
                                      [@[i] EXCEPT !.votes =
                                         @ + IF app.options[i].id \in Range(app.selected)
                                             THEN 1 ELSE 0]],
                       !.voterName = <<>>,
                       !.selected = <<>>]
             /\ disk' = Autosaved(d, app')
  /\ UNCHANGED cloudVars

\* the remove button of an option: the option and its id in every ballot go,
\* and recountVotes of the current render is queued with setTimeout(.., 0); one
\* queued recount is explored at a time
LocalRemoveOption(id) ==
  /\ disk.ops < MaxLocalOps
  /\ id \in OptionIds(app.options)
  /\ app.timer = Null
  /\ LET keep == {i \in DOMAIN app.options : app.options[i].id # id}
         next == [n \in 1..Cardinality(keep) |->
                    app.options[CHOOSE i \in keep :
                                  Cardinality({j \in keep : j < i}) = n - 1]]
     IN app' = [app EXCEPT
                  !.options = next,
                  !.ballots = [k \in DOMAIN @ |-> [@[k] EXCEPT !.ids = SeqFilter(@, id)]],
                  !.timer = <<app.ballots>>]
  /\ disk' = Autosaved(disk, app')
  /\ UNCHANGED cloudVars

\* the queued recountVotes runs: setOptions(prev => ...) on the current options,
\* counting the ballots of the render that queued it
LocalRecountTimer ==
  /\ app.timer # Null
  /\ app' = [app EXCEPT !.options = LocalRecount(@, app.timer[1]),
                        !.timer = Null]
  /\ disk' = [disk EXCEPT !.saved = Payload(app')]
  /\ UNCHANGED cloudVars

\* the delete button of an entry of the voter list; the confirm dialog is accepted
LocalRemoveVoter(id) ==
  /\ disk.ops < MaxLocalOps
  /\ id \in DOMAIN app.ballots
  /\ app' = [app EXCEPT
               !.options = [i \in DOMAIN @ |->
                              [@[i] EXCEPT !.votes =
                                 @ - IF app.options[i].id \in Range(app.ballots[id].ids)
                                     THEN 1 ELSE 0]],
               !.ballots = [k \in DOMAIN @ \ {id} |-> @[k]]]
  /\ disk' = Autosaved(disk, app')
  /\ UNCHANGED cloudVars

\* the save button: the state goes under STORAGE_KEY, the link is rebuilt
saveToLocalNow ==
  /\ disk.ops < MaxLocalOps
  /\ app' = [app EXCEPT !.linkVersion = @ + 1]
  /\ disk' = Autosaved(disk, app')
  /\ UNCHANGED cloudVars

\* ----- the system -----
\* the clients' listeners, the students' handlers and the transactions in flight
ClientNext ==
  \/ \E c \in Clients : Deliver(c)
  \/ \E s \in Students, oid \in 1..MaxIds : Toggle(s, oid)
  \/ \E s \in Students, n \in NameInputs \cup {<<>>} : SubmitVote(s, n)
  \/ \E c \in Clients : Rerun(c)
  \/ \E c \in Clients : Commit(c)

\* admin controls of the poll's lifecycle and vote limit
LifecycleNext ==
  \/ closeNow
  \/ reopen
  \/ \E num \in 0..MaxExpected : onExpectedChange(num)
  \/ \E v \in {1, 2} : setVoteLimit(v)

\* admin operations on the ledger and the tally
TallyNext ==
  \/ \E id \in 1..MaxIds : removeOption(id)
  \/ recountVotes
  \/ \E k \in {Trim(n) : n \in NameInputs} : removeVoter(k)

\* admin edits written with update() from the admin's local state
PatchNext ==
  \/ saveToCloud
  \/ \E id \in 1..MaxIds : setOptionLabel(id, EditedLabel)
  \/ addOption

\* admin settings written field by field, and the reset
SettingsNext ==
  \/ setTitle(EditedTitle)
  \/ setDesc(EditedDesc)
  \/ \E b \in BOOLEAN : setAnonymous(b)
  \/ \E m \in {"always", "hidden", "deadline"} : setVisibilityMode(m)
  \/ \E t \in Timestamps \cup {Null} : setDeadlineAt(t)
  \/ resetAllToDefaults

Next == ClientNext \/ LifecycleNext \/ TallyNext \/ PatchNext \/ SettingsNext

Spec == Init /\ [][Next]_vars

\* submissions against the lifecycle controls
NextVote == ClientNext \/ LifecycleNext
SpecVote == Init /\ [][NextVote]_vars

\* submitBallot / removeBallot / removeOption / recount
NextTally == ClientNext \/ TallyNext
SpecTally == Init /\ [][NextTally]_vars

\* submissions against the admin's patches
NextPatch == ClientNext \/ PatchNext
SpecPatch == Init /\ [][NextPatch]_vars

\* the lifecycle against every operation that touches the ledger or the options
NextClosed ==
  \/ ClientNext
  \/ closeNow
  \/ reopen
  \/ \E num \in 0..MaxExpected : onExpectedChange(num)
  \/ TallyNext
  \/ addOption
SpecClosed == Init /\ [][NextClosed]_vars

\* the ledger operations and recount on a poll whose counts the patches let drift
NextRepair ==
  \/ ClientNext
  \/ PatchNext
  \/ recountVotes
  \/ \E k \in {Trim(n) : n \in NameInputs} : removeVoter(k)
SpecRepair == Init /\ [][NextRepair]_vars

\* reset against the edits and submissions that take a poll away from its defaults
NextReset ==
  \/ ClientNext
  \/ resetAllToDefaults
  \/ setTitle(EditedTitle)
  \/ setDesc(EditedDesc)
  \/ addOption
  \/ closeNow
  \/ \E num \in 1..MaxExpected : onExpectedChange(num)
SpecReset == Init /\ [][NextReset]_vars

\* the visibility settings against closing, reopening and the ledger operations
NextVisibility ==
  \/ ClientNext
  \/ \E m \in {"always", "hidden", "deadline"} : setVisibilityMode(m)
  \/ \E t \in Timestamps \cup {Null} : setDeadlineAt(t)
  \/ closeNow
  \/ reopen
  \/ \E k \in {Trim(n) : n \in NameInputs} : removeVoter(k)
SpecVisibility == Init /\ [][NextVisibility]_vars

\* submissions against the anonymous-mode switch
NextAnonymous ==
  \/ ClientNext
  \/ \E b \in BOOLEAN : setAnonymous(b)
SpecAnonymous == Init /\ [][NextAnonymous]_vars

\* students alone, racing each other
SpecRace == Init /\ [][ClientNext]_vars

\* the admin's patches and transactions addressed to a poll id without a record
NextAbsent ==
  \/ ClientNext
  \/ closeNow
  \/ addOption
  \/ setTitle(EditedTitle)
  \/ recountVotes
SpecAbsent == InitAbsent /\ [][NextAbsent]_vars

\* page loads against saving, resetting and the submissions
NextSession ==
  \/ ClientNext
  \/ \E c \in Clients : Reload(c)
  \/ \E pid \in PollIds : CreateRoom(pid)
  \/ saveToCloud
  \/ resetAllToDefaults
SpecSession == Init /\ [][NextSession]_vars

\* the field-by-field settings against the submissions
NextConfig ==
  \/ ClientNext
  \/ LifecycleNext
  \/ setTitle(EditedTitle)
  \/ setDesc(EditedDesc)
  \/ \E b \in BOOLEAN : setAnonymous(b)
  \/ \E m \in {"always", "hidden", "deadline"} : setVisibilityMode(m)
  \/ \E t \in Timestamps \cup {Null} : setDeadlineAt(t)
SpecConfig == Init /\ [][NextConfig]_vars

\* Every writer against the listeners, which run whenever the store differs
\* from what the client holds. The database delivers every change to every
\* attached listener, hence the weak fairness of each client's listener.
NextLive ==
  \/ \E c \in Clients : Listener(c)
  \/ \E s \in Students, oid \in 1..MaxIds : Toggle(s, oid)
  \/ \E s \in Students, n \in NameInputs \cup {<<>>} : SubmitVote(s, n)
  \/ \E c \in Clients : Rerun(c)
  \/ \E c \in Clients : Commit(c)
  \/ closeNow
  \/ \E k \in {Trim(n) : n \in NameInputs} : removeVoter(k)
SpecLive ==
  /\ Init
  /\ [][NextLive]_vars
  /\ \A c \in Clients : WF_vars(Listener(c))

\* the option list edited while the admin's copy of it is behind the store
NextOptions ==
  \/ ClientNext
  \/ \E id \in 1..MaxIds : removeOption(id)
  \/ addOption
  \/ resetAllToDefaults
SpecOptions == Init /\ [][NextOptions]_vars

\* the keys a ledger of the local-storage implementation can hold
LocalKeys ==
  {Trim(n) : n \in NameInputs} \cup {<<"t", n>> : n \in 1..(2 * MaxLocalOps + 3)}

\* the local-storage implementation: one browser, used as admin and as student
NextLocal ==
  \/ \E snap \in LinkSnapshots : LoadLink(snap)
  \/ LoadSaved
  \/ \E v \in {1, 2} : LocalSetVoteLimit(v)
  \/ \E b \in BOOLEAN : LocalSetAnonymous(b)
  \/ \E b \in BOOLEAN : LocalSetManualClosed(b)
  \/ \E m \in {"always", "hidden", "deadline"} : LocalSetVisibilityMode(m)
  \/ \E t \in Timestamps \cup {Null} : LocalSetDeadlineAt(t)
  \/ \E oid \in LocalIds : LocalToggle(oid)
  \/ \E n \in NameInputs \cup {<<>>} : LocalSubmitVote(n)
  \/ saveToLocalNow
  \/ \E id \in LocalIds : LocalRemoveOption(id)
  \/ LocalRecountTimer
  \/ \E k \in LocalKeys : LocalRemoveVoter(k)
SpecLocal == Init /\ [][NextLocal]_vars

\* ----- vocabulary of the properties -----
\* I1: every option's votes is the number of ballots that contain its id
I1(p) ==
  \A i \in DOMAIN p.options :
    p.options[i].votes = BallotCount(p.ballots, p.options[i].id)

\* this step resolves the submit transaction of student s
SubmitResolves(s) ==
  tx[s].pending /\ tx[s].kind = "submit" /\ ~tx'[s].pending

\* this step resolves the admin's transaction of the given kind
AdminResolves(kind) ==
  tx[Admin].pending /\ tx[Admin].kind = kind /\ ~tx'[Admin].pending

RECURSIVE SumVotes(_)
SumVotes(opts) ==
  IF opts = <<>> THEN 0 ELSE Head(opts).votes + SumVotes(Tail(opts))

\* the (ballot, id) pairs of the ledger whose id belongs to a current option
LivePairs(p) ==
  UNION {{<<k, j>> : j \in {j \in DOMAIN p.ballots[k].ids :
                              p.ballots[k].ids[j] \in OptionIds(p.options)}} :
         k \in DOMAIN p.ballots}

\* ----- C1 -----
\* C1: whatever the interleaving of the clients' submit transactions and however
\* often an update function is run again, a submit transaction that resolves
\* while its key is in the ledger changes nothing, and one that resolves while
\* its key is absent adds that one ballot, keeps the others and adds exactly one
\* vote to each option the new ballot contains and none to the others.
C1_AtMostOnce ==
  [][\A s \in Students :
       SubmitResolves(s) =>
         LET k == tx[s].key
         IN IF k \in DOMAIN store.ballots
            THEN store' = store
            ELSE /\ DOMAIN store'.ballots = DOMAIN store.ballots \cup {k}
                 /\ \A j \in DOMAIN store.ballots :
                      store'.ballots[j] = store.ballots[j]
                 /\ Len(store'.options) = Len(store.options)
                 /\ \A i \in DOMAIN store.options :
                      store'.options[i].votes =
                        store.options[i].votes +
                        (IF store.options[i].id \in Range(store'.ballots[k].ids)
                         THEN 1 ELSE 0)]_vars

\* two clients submitted the same key; one ballot stands, counted once
C1_Witness ==
  /\ verdict["s1"] = "accepted"
  /\ verdict["s2"] = "dup"
  /\ tx["s1"].key = tx["s2"].key
  /\ DOMAIN store.ballots = {tx["s1"].key}
  /\ SumVotes(store.options) = 1

\* ----- C2 -----
\* C2: in every stored poll state reached while the admin's addOption,
\* setOptionLabel and saveToCloud interleave with submissions and snapshots
\* reach the admin late, every option's votes equals the number of ballots
\* whose ids contain its id.
C2_VotesMatchLedger == I1(store)

\* ----- C3 -----
\* C3: a submit transaction applied to a stored poll that is closed adds no
\* ballot and is not accepted.
C3_ClosedStoreRejects ==
  [][\A s \in Students :
       (SubmitResolves(s) /\ isClosed(store)) =>
         (store'.ballots = store.ballots /\ verdict'[s] # "accepted")]_vars

\* ----- C4 -----
\* C4: after every operation of every sequence of submitBallot, removeBallot,
\* removeOption and recount from the default poll, the votes of the current
\* options add up to the number of (ballot, id) pairs whose id is a current
\* option.
C4_TallySum == SumVotes(store.options) = Cardinality(LivePairs(store))

\* a ballot refers to a removed option while another ballot is counted
C4_Witness ==
  /\ \E k \in DOMAIN store.ballots :
       \E j \in DOMAIN store.ballots[k].ids :
         store.ballots[k].ids[j] \notin OptionIds(store.options)
  /\ SumVotes(store.options) >= 1
  /\ Len(store.options) = 1

\* ----- C5 -----
\* C5: a submission whose key was in the stored ledger when its transaction ran
\* is reported to its user as already voted.
C5_DuplicateReported ==
  \A s \in Students : verdict[s] = "dup" => shown[s] = "alertAlready"

\* ----- C6 -----
\* this step rejects a submission of s: before the transaction (closed, empty
\* key, empty selection) or inside it (key already in the ledger)
RejectedNow(s) ==
  \/ studentOps'[s] # studentOps[s] /\ verdict'[s] \in {"closed", "nokey", "nosel"}
  \/ SubmitResolves(s) /\ verdict'[s] = "dup"

\* C6: every rejected submission leaves the stored poll exactly as it was.
C6_RejectionKeepsStore ==
  [][\A s \in Students : RejectedNow(s) => store' = store]_vars

\* an accepted ballot was submitted again, identically, and rejected
C6_Witness ==
  /\ verdict["s2"] = "accepted"
  /\ verdict["s1"] = "dup"
  /\ tx["s1"].key = tx["s2"].key
  /\ tx["s1"].sel = tx["s2"].sel
  /\ store.ballots[tx["s2"].key].ids = tx["s2"].sel
  /\ SumVotes(store.options) = 1

\* ----- C7 -----
\* this step is a submit click of s made on an up-to-date snapshot of a closed poll
SubmitOnClosed(s) ==
  studentOps'[s] # studentOps[s] /\ local[s] = store /\ isClosed(store)

AddOptionStep == adminOps' # adminOps /\ lastOp' = "addOption"

\* C7 as claimed: once the poll is closed, an up-to-date client's submission is
\* rejected as closed and leaves the ballots alone, and the poll stays closed
\* across removeBallot, removeOption, recount, addOption and submissions.
C7_ClosedUntilReopen ==
  [][/\ \A s \in Students :
          SubmitOnClosed(s) =>
            (verdict'[s] = "closed" /\ store'.ballots = store.ballots)
     /\ (/\ isClosed(store)
         /\ \/ AdminResolves("removeVoter")
            \/ AdminResolves("removeOption")
            \/ AdminResolves("recount")
            \/ AddOptionStep
            \/ \E s \in Students : SubmitResolves(s))
        => isClosed(store')]_vars

\* C7 as amended: while the poll is closed an up-to-date client's submission is
\* rejected as closed and leaves the ballots alone; the poll stays closed across
\* removeOption, recount, addOption and submissions, and across removeBallot
\* when manualClosed is set; removeBallot reopens a poll that was closed only by
\* the threshold, exactly when the ballot count falls below expectedVoters.
C7_ClosedBlocks ==
  [][/\ \A s \in Students :
          SubmitOnClosed(s) =>
            (verdict'[s] = "closed" /\ store'.ballots = store.ballots)
     /\ (/\ isClosed(store)
         /\ \/ AdminResolves("removeOption")
            \/ AdminResolves("recount")
            \/ AddOptionStep
            \/ \E s \in Students : SubmitResolves(s))
        => isClosed(store')
     /\ (isClosed(store) /\ AdminResolves("removeVoter"))
        => (isClosed(store') <=>
              (store.manualClosed \/
               Cardinality(DOMAIN store'.ballots) >= store.expectedVoters))]_vars

\* a client was turned away from the auto-closed poll, then removeBallot took
\* the count below the threshold and the poll is open with no reopen()
C7_Witness ==
  /\ \E s \in Students : verdict[s] = "closed"
  /\ lastOp = "removeVoter"
  /\ ~tx[Admin].pending
  /\ tx[Admin].key \notin DOMAIN store.ballots
  /\ store.expectedVoters = Cardinality(DOMAIN store.ballots) + 1
  /\ ~isClosed(store)

\* ----- C8 -----
\* the closed condition, written out on the stored poll
ClosedFormula(p) ==
  p.manualClosed \/
  (p.expectedVoters > 0 /\ Cardinality(DOMAIN p.ballots) >= p.expectedVoters)

\* C8: isClosed is manualClosed or the threshold being met; closeNow sets
\* manualClosed, reopen clears it and leaves the poll closed exactly when the
\* threshold is still met; with no threshold and no manual close the poll is open.
C8_Lifecycle ==
  [][/\ isClosed(store') <=> ClosedFormula(store')
     /\ \A c \in Clients : isClosed(local'[c]) <=> ClosedFormula(local'[c])
     /\ (adminOps' # adminOps /\ lastOp' = "closeNow")
        => (store'.manualClosed /\ isClosed(store'))
     /\ (adminOps' # adminOps /\ lastOp' = "reopen")
        => /\ ~store'.manualClosed
           /\ isClosed(store') <=>
                (store.expectedVoters > 0 /\
                 Cardinality(DOMAIN store.ballots) >= store.expectedVoters)
     /\ (store'.expectedVoters = 0 /\ ~store'.manualClosed) => ~isClosed(store')]_vars

\* reopen() ran and the poll is still closed by the threshold
C8_Witness ==
  /\ lastOp = "reopen"
  /\ ~store.manualClosed
  /\ store.expectedVoters > 0
  /\ Cardinality(DOMAIN store.ballots) >= store.expectedVoters
  /\ isClosed(store)

\* ----- C9 -----
\* the first n entries of a selection
Prefix(sel, n) == [i \in 1..(IF Len(sel) < n THEN Len(sel) ELSE n) |-> sel[i]]

\* C9: a submit transaction whose key is not in the ledger is accepted whatever
\* the length of its selection; the ballot's ids are the first voteLimit entries
\* of the selection, voteLimit being the stored value at commit, and the options
\* outside that prefix keep their votes.
C9_Truncation ==
  [][\A s \in Students :
       (SubmitResolves(s) /\ tx[s].key \notin DOMAIN store.ballots) =>
         LET ids == Prefix(tx[s].sel, store.voteLimit)
         IN /\ verdict'[s] = "accepted"
            /\ tx[s].key \in DOMAIN store'.ballots
            /\ store'.ballots[tx[s].key].ids = ids
            /\ \A i \in DOMAIN store.options :
                 store.options[i].id \notin Range(ids) =>
                   store'.options[i] = store.options[i]]_vars

\* a two-entry selection was accepted under a stored voteLimit of 1
C9_Witness ==
  \E s \in Students :
    /\ verdict[s] = "accepted"
    /\ Len(tx[s].sel) = 2
    /\ store.voteLimit = 1
    /\ tx[s].key \in DOMAIN store.ballots
    /\ store.ballots[tx[s].key].ids = <<tx[s].sel[1]>>
    /\ \A i \in DOMAIN store.options :
         store.options[i].id = tx[s].sel[2] => store.options[i].votes = 0

\* ----- C10 -----
\* C10: right after removeOption(X) commits, X is no option, no ballot contains
\* X, every remaining option's votes is the number of ballots containing its id
\* and a recount changes no vote count.
C10_RemoveOptionPurges ==
  [][AdminResolves("removeOption") =>
       LET X == tx[Admin].optId
       IN /\ X \notin OptionIds(store'.options)
          /\ \A k \in DOMAIN store'.ballots : X \notin Range(store'.ballots[k].ids)
          /\ I1(store')
          /\ RecountUpdate(store').options = store'.options]_vars

\* removeOption emptied one ballot while another one is still counted
C10_Witness ==
  /\ lastOp = "removeOption"
  /\ ~tx[Admin].pending
  /\ tx[Admin].optId \notin OptionIds(store.options)
  /\ \E k \in DOMAIN store.ballots : store.ballots[k].ids = <<>>
  /\ SumVotes(store.options) >= 1

\* ----- C11 -----
\* C11: once removeOption(X) has committed, a submit transaction that resolves
\* later, whenever its selection was made, leaves no ballot whose ids contain X,
\* and every option's votes equals the number of ballots containing its id.
C11_NoResurrection ==
  [][\A s \in Students :
       (/\ SubmitResolves(s)
        /\ tx[Admin].kind = "removeOption"
        /\ ~tx[Admin].pending
        /\ tx[Admin].optId \notin OptionIds(store.options))
       => /\ \A k \in DOMAIN store'.ballots :
               tx[Admin].optId \notin Range(store'.ballots[k].ids)
          /\ I1(store')]_vars

\* ----- C12 -----
\* the record as it is apart from its ledger and its options
Config(p) ==
  [title |-> p.title, desc |-> p.desc, voteLimit |-> p.voteLimit,
   anonymous |-> p.anonymous, visibilityMode |-> p.visibilityMode,
   deadlineAt |-> p.deadlineAt, expectedVoters |-> p.expectedVoters,
   manualClosed |-> p.manualClosed]

\* C12: when the removeBallot(k) transaction resolves, the stored poll is
\* unchanged if k is not in the stored ledger; otherwise exactly the entry k is
\* gone, every option the ballot refers to has one vote less but never fewer
\* than 0, and the other ballots, the other options and the configuration are
\* as they were.
C12_RemoveBallot ==
  [][AdminResolves("removeVoter") =>
       LET k == tx[Admin].key
       IN IF k \notin DOMAIN store.ballots
          THEN store' = store
          ELSE /\ DOMAIN store'.ballots = DOMAIN store.ballots \ {k}
               /\ \A j \in DOMAIN store'.ballots : store'.ballots[j] = store.ballots[j]
               /\ Len(store'.options) = Len(store.options)
               /\ \A i \in DOMAIN store.options :
                    IF store.options[i].id \in Range(store.ballots[k].ids)
                    THEN /\ store'.options[i].votes =
                              (IF store.options[i].votes >= 1
                               THEN store.options[i].votes - 1 ELSE 0)
                         /\ store'.options[i].id = store.options[i].id
                         /\ store'.options[i].label = store.options[i].label
                    ELSE store'.options[i] = store.options[i]
               /\ Config(store') = Config(store)]_vars

\* removeBallot deleted a ballot whose option already stood at 0 votes, and the
\* option is still at 0
C12_Witness ==
  /\ lastOp = "removeVoter"
  /\ tx[Admin].kind = "removeVoter"
  /\ ~tx[Admin].pending
  /\ LET k == tx[Admin].key
         b == tx[Admin].base
     IN /\ k \in DOMAIN b.ballots
        /\ k \notin DOMAIN store.ballots
        /\ \E i \in DOMAIN b.options :
             /\ b.options[i].id \in Range(b.ballots[k].ids)
             /\ b.options[i].votes = 0
             /\ store.options[i].votes = 0

\* ----- C13 -----
\* C13: when the recount transaction resolves, on a stored poll whose votes
\* match the ledger or have drifted from it, every option's votes becomes the
\* number of ballots whose ids contain its id, and the ballots, the options'
\* ids, labels and order and the configuration fields are unchanged.
C13_Recount ==
  [][AdminResolves("recount") =>
       /\ store'.ballots = store.ballots
       /\ Config(store') = Config(store)
       /\ Len(store'.options) = Len(store.options)
       /\ \A i \in DOMAIN store.options :
            /\ store'.options[i].id = store.options[i].id
            /\ store'.options[i].label = store.options[i].label
            /\ store'.options[i].votes =
                 Cardinality({k \in DOMAIN store.ballots :
                                \E j \in DOMAIN store.ballots[k].ids :
                                  store.ballots[k].ids[j] = store.options[i].id})]_vars

\* recount ran on a poll whose votes had drifted from a non-empty ledger and
\* left it with votes that match
C13_Witness ==
  /\ lastOp = "recountVotes"
  /\ tx[Admin].kind = "recount"
  /\ ~tx[Admin].pending
  /\ ~I1(tx[Admin].base)
  /\ tx[Admin].base.ballots # NoBallots
  /\ I1(store)
  /\ store.ballots = tx[Admin].base.ballots

\* ----- C14 -----
\* C14: recount is idempotent: whenever the recount transaction resolves, a
\* second recount of its result yields the same options, votes and ballots, in
\* the realtime-database implementation and, for the same options and ballots,
\* in the local-storage implementation.
C14_RecountIdempotent ==
  [][AdminResolves("recount") =>
       /\ store' = RecountUpdate(store)
       /\ RecountUpdate(store').options = store'.options
       /\ RecountUpdate(store').ballots = store'.ballots
       /\ LocalRecount(LocalRecount(store.options, store.ballots), store.ballots)
            = LocalRecount(store.options, store.ballots)]_vars

\* recount ran twice on a poll holding both students' ballots, and the second
\* run found nothing to change
C14_Witness ==
  /\ adminOps = 2
  /\ lastOp = "recountVotes"
  /\ tx[Admin].kind = "recount"
  /\ ~tx[Admin].pending
  /\ linkVersion = 0
  /\ uuidCtr = 2
  /\ \A i \in DOMAIN store.options : store.options[i].label # EditedLabel
  /\ Cardinality(DOMAIN store.ballots) = 2
  /\ tx[Admin].base = store
  /\ SumVotes(store.options) = 2

\* ----- C15 -----
\* this step is the admin's resetAllToDefaults
ResetStep == adminOps' # adminOps /\ lastOp' = "resetAllToDefaults"

\* C15: whatever the poll held, right after resetToDefaults the record at the
\* poll's path holds the default title and description, exactly two options
\* with 0 votes each, an empty ballot ledger, manualClosed = false and
\* expectedVoters = 0.
C15_ResetToDefaults ==
  [][ResetStep =>
       /\ store'.present
       /\ store'.title = DefaultTitle
       /\ store'.desc = DEFAULT_DESC
       /\ Len(store'.options) = 2
       /\ \A i \in DOMAIN store'.options : store'.options[i].votes = 0
       /\ store'.options[1].id # store'.options[2].id
       /\ store'.ballots = NoBallots
       /\ ~store'.manualClosed
       /\ store'.expectedVoters = 0]_vars

\* a poll with an accepted ballot and an edited title was reset: the record is
\* the default one with two fresh options, while the admin's screen still
\* shows the edited title
C15_Witness ==
  /\ lastOp = "resetAllToDefaults"
  /\ \E s \in Students : verdict[s] = "accepted"
  /\ local[Admin].title = EditedTitle
  /\ store = FreshState(uuidCtr - 2)
  /\ store.title = DefaultTitle
  /\ store.ballots = NoBallots

\* ----- C16 -----
\* the client's copy of the poll with its deadline replaced by d
WithDeadline(p, d) == [p EXCEPT !.deadlineAt = d]

\* C16: while a client's copy of the poll has visibilityMode = hidden, a render
\* of the admin view shows the results and a render of the student view does
\* not, at every instant and for every deadlineAt.
C16_HiddenSplit ==
  \A c \in Clients, now \in Nows, d \in Timestamps \cup {Null} :
    local[c].visibilityMode = "hidden" =>
      /\ isVisibleAdmin(WithDeadline(local[c], d), now)
      /\ ~isVisibleStudent(WithDeadline(local[c], d), now)

\* the admin and a student both hold a hidden poll with a ballot in it
C16_Witness ==
  /\ local[Admin].visibilityMode = "hidden"
  /\ \E s \in Students :
       local[s].visibilityMode = "hidden" /\ local[s].ballots # NoBallots
  /\ \A now \in Nows : isVisibleAdmin(local[Admin], now)

\* ----- C17 -----
\* the student-facing visibility as the claim states it
StudentVisibleAsClaimed(p, now) ==
  CASE p.visibilityMode = "always" -> TRUE
    [] p.visibilityMode = "hidden" -> FALSE
    [] OTHER -> IF p.deadlineAt = Null THEN FALSE ELSE now >= p.deadlineAt[1]

\* C17: at every render the student-facing visibility, in both
\* implementations, is true when visibilityMode = always, false when hidden,
\* and when deadline false if deadlineAt is null and otherwise exactly
\* (now >= deadlineAt).
C17_StudentVisibility ==
  \A s \in Students, now \in Nows :
    /\ isVisibleStudent(local[s], now) = StudentVisibleAsClaimed(local[s], now)
    /\ isVisible(local[s], now) = StudentVisibleAsClaimed(local[s], now)

\* ----- C18 -----
\* C18: at every render, when visibilityMode is not hidden the admin and the
\* student audience get the same visibility, and in deadline mode with
\* deadlineAt = T both see nothing at every now < T and both see the results at
\* every now >= T.
C18_AudiencesAgree ==
  \A c \in Clients, now \in Nows :
    LET p == local[c]
    IN /\ p.visibilityMode # "hidden" =>
            isVisibleAdmin(p, now) = isVisibleStudent(p, now)
       /\ (p.visibilityMode = "deadline" /\ p.deadlineAt # Null) =>
            /\ now < p.deadlineAt[1] =>
                 (~isVisibleAdmin(p, now) /\ ~isVisibleStudent(p, now))
            /\ now >= p.deadlineAt[1] =>
                 (isVisibleAdmin(p, now) /\ isVisibleStudent(p, now))

\* ----- C19 -----
\* C19: any two copies of the poll, stored or held by a client, before or after
\* a step, that agree on visibilityMode and deadlineAt give each audience the
\* same visibility at every instant, whatever their ballots, votes,
\* manualClosed and expectedVoters; so closeNow, reopen, an accepted ballot and
\* a removed ballot leave what each audience may see as it was.
C19_VisibilityInputs ==
  [][LET Polls == {store, store'} \cup {local[c] : c \in Clients}
                    \cup {local'[c] : c \in Clients}
     IN \A p \in Polls, q \in Polls :
          (p.visibilityMode = q.visibilityMode /\ p.deadlineAt = q.deadlineAt) =>
            \A now \in Nows :
              /\ isVisibleStudent(p, now) = isVisibleStudent(q, now)
              /\ isVisibleAdmin(p, now) = isVisibleAdmin(q, now)]_vars

\* closeNow closed a poll in deadline mode that holds a ballot, while a student
\* still holds it open and empty in the same mode
C19_Witness ==
  /\ lastOp = "closeNow"
  /\ store.visibilityMode = "deadline"
  /\ store.manualClosed
  /\ store.ballots # NoBallots
  /\ \E s \in Students :
       /\ local[s].visibilityMode = "deadline"
       /\ local[s].deadlineAt = store.deadlineAt
       /\ ~local[s].manualClosed
       /\ local[s].ballots = NoBallots

\* ----- C20 -----
\* C20: when a submit transaction adds a ballot to a stored poll whose
\* anonymous flag is true, the ballot carries no name and its key is the
\* submitting device's token, also when the client's own copy of the flag is
\* out of date.
C20_AnonymousKey ==
  [][\A s \in Students :
       (/\ SubmitResolves(s)
        /\ store.anonymous
        /\ tx[s].key \in DOMAIN store'.ballots \ DOMAIN store.ballots)
       => /\ store'.ballots[tx[s].key].name = <<>>
          /\ deviceToken[s] # <<>>
          /\ tx[s].key = deviceToken[s]]_vars

\* ----- C21 -----
\* C21: in anonymous mode the tokens one device resolves for two different polls
\* are independent: whenever getStudentKey has returned a token for each of two
\* polls, the two tokens differ.
C21_TokensPerPoll ==
  \A p, q \in LocalPolls :
    (p # q /\ disk.resolved[p] # <<>> /\ disk.resolved[q] # <<>>)
      => disk.resolved[p] # disk.resolved[q]

\* ----- C22 -----
\* the normal form of a name: trimmed, inner runs of spaces collapsed to one,
\* letters in lower case
Lower(ch) == IF ch = "A" THEN "a" ELSE ch

RECURSIVE Collapse(_)
Collapse(t) ==
  IF Len(t) < 2 THEN t
  ELSE IF t[1] = " " /\ t[2] = " " THEN Collapse(Tail(t))
       ELSE <<t[1]>> \o Collapse(Tail(t))

Normalize(t) == [i \in DOMAIN Collapse(Trim(t)) |-> Lower(Collapse(Trim(t))[i])]

\* C22: a ballot keyed by name is keyed by the normal form of the name, so the
\* ledger never holds two name-keyed ballots whose keys have the same normal
\* form (names that differ only in letter case or spacing).
C22_NormalizedKey ==
  \A k1, k2 \in DOMAIN store.ballots :
    (store.ballots[k1].name = k1 /\ store.ballots[k2].name = k2
       /\ Normalize(k1) = Normalize(k2)) => k1 = k2


\* ----- C23 -----
\* C23: an operation other than creation and reset that is addressed to a poll
\* id without a record leaves the store without a record for it.
C23_AbsentStaysAbsent == [][~store.present => ~store'.present]_vars


\* ----- C24 -----
\* this step is a page load of client c: its React state goes back to the
\* initial values
Reloaded(c) == local[c] # InitialLocal /\ local'[c] = InitialLocal

\* C24: loading or reloading a client whose URL carries the poll id leaves the
\* stored poll unchanged, a default record is only ever created at a poll id
\* that has none (creation never overwrites a poll), and no client's pollId
\* changes after acquisition.
C24_Acquisition ==
  [][/\ (\E c \in Clients : Reloaded(c)) => store' = store
     /\ \A pid \in PollIds : rooms'[pid] # rooms[pid] => rooms[pid] = 0
     /\ pollId' = pollId]_vars


\* ----- C25 -----
\* this step is the admin's save-to-store or reset-to-defaults handler
SaveOrResetStep ==
  /\ adminOps' = adminOps + 1
  /\ lastOp' \in {"saveToCloud", "resetAllToDefaults"}

\* C25: the version counter of the share link never decreases: a save and a
\* reset increase it by exactly 1 and no other step changes it.
C25_LinkVersionMonotone ==
  [][/\ linkVersion' >= linkVersion
     /\ SaveOrResetStep => linkVersion' = linkVersion + 1
     /\ ~SaveOrResetStep => linkVersion' = linkVersion]_vars


\* ----- C26 -----
\* the field of the stored poll a settings handler edits
FieldOf(op) ==
  CASE op = "setTitle" -> "title"
    [] op = "setDesc" -> "desc"
    [] op = "setVoteLimit" -> "voteLimit"
    [] op = "setAnonymous" -> "anonymous"
    [] op = "setVisibilityMode" -> "visibilityMode"
    [] op = "setDeadlineAt" -> "deadlineAt"
    [] op = "onExpectedChange" -> "expectedVoters"
    [] op \in {"closeNow", "reopen"} -> "manualClosed"

\* C26: editing title, description, voteLimit, anonymous, visibilityMode,
\* deadlineAt or expectedVoters, and closeNow or reopen, changes only the edited
\* field of the stored poll: the ballot ledger, the option list with its votes
\* and every other field are as before; closeNow sets manualClosed and reopen
\* clears it.
C26_PatchFrame ==
  [][adminOps' = adminOps + 1 =>
       /\ \A f \in DOMAIN store \ {FieldOf(lastOp')} : store'[f] = store[f]
       /\ lastOp' = "closeNow" => store'.manualClosed
       /\ lastOp' = "reopen" => ~store'.manualClosed]_vars

\* voteLimit was lowered to 1 while the ledger holds a ballot of two ids, and
\* the ballot is still there
C26_Witness ==
  /\ lastOp = "setVoteLimit"
  /\ store.voteLimit = 1
  /\ \E k \in DOMAIN store.ballots : Len(store.ballots[k].ids) = 2


\* ----- C27 -----
\* no id occurs twice in the sequence
NoDuplicates(ids) == \A i, j \in DOMAIN ids : ids[i] = ids[j] => i = j

\* C27: no ballot's ids contains the same option id twice, and neither does a
\* student's pending selection.
C27_NoDuplicateIds ==
  /\ \A k \in DOMAIN store.ballots : NoDuplicates(store.ballots[k].ids)
  /\ \A s \in Students : NoDuplicates(selected[s])

\* a ballot of two ids is in the ledger
C27_Witness ==
  \E k \in DOMAIN store.ballots :
    /\ Len(store.ballots[k].ids) = 2
    /\ store.ballots[k].ids[1] # store.ballots[k].ids[2]


\* ----- C28 -----
\* C28: addOption appends exactly one option with votes 0 and an id no stored
\* option has, keeps the ids, labels and order of the stored options, labels the
\* new option with the placeholder of position n + 1, and leaves the ballot
\* ledger unchanged.
C28_AddOptionAppends ==
  [][AddOptionStep =>
       LET old == store.options
           new == store'.options
       IN /\ Len(new) = Len(old) + 1
          /\ \A i \in DOMAIN old :
               new[i].id = old[i].id /\ new[i].label = old[i].label
          /\ new[Len(new)].votes = 0
          /\ new[Len(new)].id \notin OptionIds(old)
          /\ new[Len(new)].label = Len(old) + 1
          /\ store'.ballots = store.ballots]_vars


\* ----- C29 -----
\* C29: in the local-storage implementation every ballot that enters the ledger
\* has at most voteLimit ids, voteLimit being the value in force when the
\* ballot is submitted.
C29_LocalBallotWithinLimit ==
  [][\A k \in DOMAIN app'.ballots \ DOMAIN app.ballots :
       Len(app'.ballots[k].ids) <= app.voteLimit]_vars


\* ----- C30 -----
\* every client's mirrored state is the stored poll
AllSynced == \A c \in Clients : local[c] = store

\* C30: under fair delivery of the listener's events, once the writes have
\* stopped every client's local snapshot (options with votes, ballots,
\* configuration) equals the stored poll, and stays equal to it.
C30_EventuallySynced == <>[]AllSynced

\* a ballot was committed and the poll closed by the admin, and every client
\* holds that record
C30_Witness ==
  /\ AllSynced
  /\ store.ballots # NoBallots
  /\ store.manualClosed


\* ----- C31 -----
\* C31: removeOption(X) removes only X from the stored option list: every other
\* option in the store when the transaction commits is in the store afterwards,
\* with the same id and label.
C31_RemovesOnlyX ==
  [][AdminResolves("removeOption") =>
       \A i \in DOMAIN store.options :
         store.options[i].id # tx[Admin].optId =>
           \E j \in DOMAIN store'.options :
             /\ store'.options[j].id = store.options[i].id
             /\ store'.options[j].label = store.options[i].label]_vars

\* ----- C32 -----
\* C32: in the local-storage implementation, when the recount deferred by
\* removeOption has run, every remaining option's votes is the number of
\* ballots whose ids contain its id, whatever was processed in between.
C32_DeferredRecount ==
  [][(app.timer # Null /\ app'.timer = Null /\ disk'.uuids = disk.uuids)
       => I1(app')]_vars

\* ----- C33 -----
\* C33: the student view displays the submission confirmation only after an
\* accepted submission: while it is displayed, the student's last submission
\* was not rejected as closed, for an empty key, for an empty selection or as
\* a duplicate.
C33_ConfirmationOnlyIfAccepted ==
  \A s \in Students :
    submitted[s] => verdict[s] \notin {"closed", "nokey", "nosel", "dup"}

\* ----- C34 -----
\* C34: in the local-storage implementation, with visibilityMode = hidden the
\* admin view shows the live results and the student view does not.
C34_LocalHiddenSplit ==
  app.visibilityMode = "hidden" =>
    \A now \in Nows :
      LocalAdminVisible(app, now) /\ ~LocalStudentVisible(app, now)

\* ----- C35 -----
\* this step is a click of student s on the submit button
SubmitClick(s) == studentOps'[s] = studentOps[s] + 1

\* C35: submitVote tests closed, then empty key, then empty selection, and only
\* then starts the store transaction, which tests the duplicate key: a
\* submission is rejected for the earliest of these it violates, and a
\* transaction is started exactly when the first three tests pass.
C35_RejectionOrder ==
  [][\A s \in Students :
       /\ SubmitClick(s) =>
            LET key == IF local[s].anonymous THEN StudentKey(s)
                       ELSE Trim(voterName'[s])
            IN /\ verdict'[s] =
                    (IF isClosed(local[s]) THEN "closed"
                     ELSE IF key = <<>> THEN "nokey"
                     ELSE IF selected[s] = <<>> THEN "nosel"
                     ELSE "pending")
               /\ tx'[s].pending <=> verdict'[s] = "pending"
               /\ store' = store
       /\ SubmitResolves(s) =>
            (verdict'[s] = "dup" <=> tx[s].key \in DOMAIN store.ballots)]_vars

\* a submission with neither a name nor a selection was rejected for the
\* missing name
C35_Witness ==
  \E s \in Students :
    /\ verdict[s] = "nokey"
    /\ shown[s] = "alertName"
    /\ selected[s] = <<>>
    /\ ~isClosed(local[s])
    /\ local[s].options # <<>>

\* ----- C36 -----
\* C36: removeOption never changes the set of voter keys in the ledger: a
\* ballot whose only selection was the removed option stays with empty ids,
\* the participant count and the auto-close verdict are as before, and a later
\* submission with the key of an emptied ballot is treated as a duplicate and
\* changes nothing.
C36_RemoveOptionKeepsVoters ==
  [][/\ AdminResolves("removeOption") =>
          /\ DOMAIN store'.ballots = DOMAIN store.ballots
          /\ \A k \in DOMAIN store.ballots :
               store.ballots[k].ids = <<tx[Admin].optId>> => store'.ballots[k].ids = <<>>
          /\ votedCount(store') = votedCount(store)
          /\ autoClosed(store') <=> autoClosed(store)
     /\ \A s \in Students :
          (/\ SubmitResolves(s)
           /\ tx[s].key \in DOMAIN store.ballots
           /\ store.ballots[tx[s].key].ids = <<>>)
          => (verdict'[s] = "dup" /\ store' = store)]_vars

\* removeOption has emptied a ballot, and that ballot alone keeps the poll
\* closed by the expected-voters threshold
C36_Witness ==
  /\ tx[Admin].kind = "removeOption"
  /\ ~tx[Admin].pending
  /\ tx[Admin].optId \notin OptionIds(store.options)
  /\ \E k \in DOMAIN store.ballots : store.ballots[k].ids = <<>>
  /\ store.expectedVoters = 1
  /\ votedCount(store) = 1
  /\ ~store.manualClosed
  /\ isClosed(store)

\* ----- C37 -----
\* the admin's removeBallot of key k has committed
Removed(k) ==
  tx[Admin].kind = "removeVoter" /\ ~tx[Admin].pending /\ tx[Admin].key = k

\* C37: when removeBallot(k) commits, k leaves the ledger, and a poll closed only
\* by the expected-voters threshold is open again once the ballot count is below
\* expectedVoters; a submit transaction with key k that resolves later on the
\* open poll is accepted: it adds the ballot of k and exactly one vote to each
\* stored option the ballot contains.
C37_ResubmitAfterRemoval ==
  [][/\ AdminResolves("removeVoter") =>
          /\ tx[Admin].key \notin DOMAIN store'.ballots
          /\ (/\ tx[Admin].key \in DOMAIN store.ballots
              /\ ~store.manualClosed
              /\ autoClosed(store)
              /\ votedCount(store) - 1 < store.expectedVoters) => ~isClosed(store')
     /\ \A s \in Students :
          (/\ SubmitResolves(s)
           /\ Removed(tx[s].key)
           /\ tx[s].key \notin DOMAIN store.ballots
           /\ ~isClosed(store))
          => /\ verdict'[s] = "accepted"
             /\ DOMAIN store'.ballots = DOMAIN store.ballots \cup {tx[s].key}
             /\ \A k \in DOMAIN store.ballots : store'.ballots[k] = store.ballots[k]
             /\ store'.ballots[tx[s].key].ids = Take(tx[s].sel, store.voteLimit)
             /\ Len(store'.options) = Len(store.options)
             /\ \A i \in DOMAIN store.options :
                  store'.options[i].votes =
                    store.options[i].votes +
                      (IF store.options[i].id \in Range(store'.ballots[tx[s].key].ids)
                       THEN 1 ELSE 0)]_vars

\* with one voter expected: a student voted under key k and the poll closed, the
\* admin removed that ballot, and the other student's submission under k was
\* accepted
C37_Witness ==
  /\ store.expectedVoters = 1
  /\ lastOp = "removeVoter"
  /\ \E k \in DOMAIN store.ballots :
       /\ Removed(k)
       /\ \A s \in Students :
            tx[s].kind = "submit" /\ tx[s].key = k /\ verdict[s] = "accepted"

\* ----- C38 -----
\* this step is a page load of the local-storage App (makeDefaultState draws
\* two ids)
PageLoad == disk'.uuids = disk.uuids + 2

\* C38: in the local-storage implementation a page load, with or without a
\* snapshot in the URL, shows the ballot ledger and the vote counts that were
\* last autosaved, and leaves the ledger in local storage as it was.
C38_ReloadKeepsLedger ==
  [][PageLoad =>
       /\ app'.ballots = disk.saved.ballots
       /\ SumVotes(app'.options) = SumVotes(disk.saved.options)
       /\ disk'.saved.ballots = disk.saved.ballots]_vars

=============================================================================
